---------------------------- MODULE Spec2Model ----------------------------
(*
  Model of scheduling.py: the recoverability classifiers (st, aca, rc,
  recoverable), the lock compatibility gate (lockable) and the two lock
  simulators (c2pl, s2pl).

  A schedule is a sequence of Op records.  Transaction ids and objects are
  small integers; the code only ever compares them for equality, so the
  input schedules are enumerated up to renaming of transactions and objects
  (first occurrences are numbered 1, 2, ... in schedule order).

  Python outcomes are modelled as strings: "True", "False", and the name of
  the exception for a call that raises.
*)
EXTENDS Integers, Sequences, FiniteSets, Bags, TLC

\* ------------------------------------------------------------------ bounds

\* transactions and objects of an input schedule
NumTxn == 3
NumObj == 2
\* longest input schedule of the classifiers and of s2pl
MaxLen == 4
\* longest input schedule of c2pl (a request is deferred and the run still
\* returns only from five operations on: two accesses of the lock holder, one
\* of the deferred transaction, two terminating events)
MaxLenC2PL == 5

\* Longest input schedule of conf: two committed transactions, one of them
\* repeating an operation, take five operations.
MaxLenConf == 5

\* ------------------------------------------------------------ operation model

\* The object field of an abort/commit operation ('' in the source).
EmptyObj == 0

\* The default of next(..., None) in reads.
None == 0

Txns == 1..NumTxn
Objs == 1..NumObj

Op(a, t, o) == [action |-> a, transaction |-> t, object |-> o]

AccessOps == {Op(a, t, o) : a \in {"r", "w"}, t \in Txns, o \in Objs}
EndOps    == {Op(a, t, EmptyObj) : a \in {"a", "c"}, t \in Txns}
Ops       == AccessOps \cup EndOps

\* ------------------------------------------------------------ generic helpers

Max(S) == IF S = {} THEN 0 ELSE CHOOSE m \in S : \A x \in S : x <= m

Range(seq) == {seq[i] : i \in 1..Len(seq)}

\* seq[a..b] with Python's clamping of an empty slice
Slice(seq, a, b) == IF b < a THEN <<>> ELSE SubSeq(seq, a, b)

\* list.index(x): position (1-based) of the first occurrence, 0 when absent
\* (the caller turns 0 into ValueError)
Index(seq, x) ==
    IF x \in Range(seq)
    THEN CHOOSE i \in 1..Len(seq) : seq[i] = x /\ \A j \in 1..(i - 1) : seq[j] # x
    ELSE 0

\* reversed(seq)
Reverse(seq) == [i \in 1..Len(seq) |-> seq[Len(seq) + 1 - i]]

\* ------------------------------------------------------- well-formed schedules

\* Input schedules are well-formed: a transaction has at most one terminating
\* event and it is the last event of that transaction.  NextOps(sch) are the
\* operations that may follow the well-formed schedule sch: those of
\* transactions that have not terminated, fresh transaction and object names
\* being introduced in increasing order.
NextOps(sch) ==
    LET ended == {sch[i].transaction : i \in {j \in 1..Len(sch) : sch[j].action \in {"a", "c"}}}
        mt    == Max({sch[i].transaction : i \in 1..Len(sch)})
        mo    == Max({sch[i].object : i \in 1..Len(sch)})
        ts    == {t \in Txns : t <= mt + 1} \ ended
        os    == {o \in Objs : o <= mo + 1}
    IN  {Op(a, t, o) : a \in {"r", "w"}, t \in ts, o \in os}
            \cup {Op(a, t, EmptyObj) : a \in {"a", "c"}, t \in ts}

\* --------------------------------------------------------- schedule utilities

aborts(s) == {s[i].transaction : i \in {j \in 1..Len(s) : s[j].action = "a"}}

IsCommit(op) == op.action = "c"

RECURSIVE TransactionsOf(_)
TransactionsOf(ops) ==
    IF ops = <<>> THEN <<>>
    ELSE <<Head(ops).transaction>> \o TransactionsOf(Tail(ops))

\* list of committed transaction ids, in commit order
commits(s) == TransactionsOf(SelectSeq(s, IsCommit))

\* ---------------------------------------------------------- conflicts

\* [(op, op2) for op2 in ops[i + 1:] if ...] for the operation at index i
confsOf(ops, i) ==
    LET op        == ops[i]
        conflicts == IF op.action = "w" THEN {"r", "w"} ELSE {"w"}
        Hit(op2)  == /\ op.transaction # op2.transaction
                     /\ op.object = op2.object
                     /\ op2.action \in conflicts
        later     == SelectSeq(Slice(ops, i + 1, Len(ops)), Hit)
    IN  [k \in 1..Len(later) |-> <<op, later[k]>>]

RECURSIVE confsFrom(_, _)
\* the loop of conf from index i on
confsFrom(ops, i) ==
    IF i > Len(ops) THEN <<>>
    ELSE confsOf(ops, i) \o confsFrom(ops, i + 1)

\* the list of conflict pairs <<op, op2>> among the operations of committed
\* transactions (their commits left out)
conf(s) ==
    LET commited == commits(s)
        Kept(op) == op.transaction \in Range(commited) /\ op.action # "c"
    IN  confsFrom(SelectSeq(s, Kept), 1)

\* ---------------------------------------------------------- reads-from

\* next(op.transaction for op in ops[i:] if ...): ops is s reversed, so the
\* scan runs from position p down to 1; aborted is aborts of the WHOLE schedule
RECURSIVE write_t_OwnWrites(_, _, _, _)
\* variant: the condition op.transaction != t is left out, so a transaction
\* reads from its own writes
write_t_OwnWrites(s, p, t, o) ==
    IF p = 0 THEN None
    ELSE IF /\ s[p].action = "w"
            /\ s[p].transaction \notin aborts(s)
            /\ s[p].object = o
         THEN s[p].transaction
         ELSE write_t_OwnWrites(s, p - 1, t, o)

RECURSIVE write_t(_, _, _, _)
write_t(s, p, t, o) ==
    IF p = 0 THEN None
    ELSE IF /\ s[p].action = "w"
            /\ s[p].transaction \notin aborts(s)
            /\ s[p].transaction # t
            /\ s[p].object = o
         THEN s[p].transaction
         ELSE write_t(s, p - 1, t, o)

\* triples <<reader, object, writer>> of the read operations among s[1..p],
\* in schedule order
RECURSIVE readsUpTo(_, _)
readsUpTo(s, p) ==
    IF p = 0 THEN <<>>
    ELSE LET op == s[p]
             w  == write_t(s, p, op.transaction, op.object)
         IN  IF op.action = "r" /\ w # None
             THEN Append(readsUpTo(s, p - 1), <<op.transaction, op.object, w>>)
             ELSE readsUpTo(s, p - 1)

\* variant: the final list(reversed(reads)) is left out, so the triples come
\* in the order of the reversed schedule
reads_NotReversed(s) == Reverse(readsUpTo(s, Len(s)))

reads(s) == readsUpTo(s, Len(s))

\* ---------------------------------------------------------- classifiers

rc(s) ==
    LET commited == commits(s)
    IN  IF \A k \in 1..Len(reads(s)) :
               LET ti == reads(s)[k][1]
                   tj == reads(s)[k][3]
               IN  ti \in Range(commited) =>
                       tj \in Range(Slice(commited, 1, Index(commited, ti) - 1))
        THEN "True" ELSE "False"

\* index = s.index(Op('r', ti, x)) is the FIRST occurrence of that read
acaIndex(s, ti, x) == Index(s, Op("r", ti, x))

aca(s) ==
    IF \A k \in 1..Len(reads(s)) :
           LET ti == reads(s)[k][1]
               x  == reads(s)[k][2]
               tj == reads(s)[k][3]
           IN  Op("c", tj, EmptyObj) \in Range(Slice(s, 1, acaIndex(s, ti, x) - 1))
    THEN "True" ELSE "False"

\* the loop of st from position i on; s.index(op_end) raises ValueError when
\* the writing transaction has no terminating event
RECURSIVE stFrom(_, _)
stFrom(s, i) ==
    IF i > Len(s) THEN "True"
    ELSE IF s[i].action # "w" THEN stFrom(s, i + 1)
    ELSE LET t      == s[i].transaction
             o      == s[i].object
             op_end == Op(IF t \in Range(commits(s)) THEN "c" ELSE "a", t, EmptyObj)
             e      == Index(s, op_end)
         IN  IF e = 0 THEN "ValueError"
             ELSE IF \E k \in i..(e - 1) :
                         s[k].transaction # t /\ s[k].object = o
                  THEN "False"
                  ELSE stFrom(s, i + 1)

st(s) == stFrom(s, 1)

\* st(s) or aca(s) or rc(s), left to right, an exception propagating
recoverable(s) ==
    IF st(s) = "ValueError" THEN "ValueError"
    ELSE IF st(s) = "True" THEN "True"
    ELSE IF aca(s) = "True" THEN "True"
    ELSE rc(s)

\* ------------------------------------------------------------ lock helpers

\* a dict: a function whose domain is the set of keys
EmptyDict == [k \in {} |-> <<>>]

\* d[k] = v, inserting the key when it is absent
DictSet(d, k, v) == [x \in DOMAIN d \cup {k} |-> IF x = k THEN v ELSE d[x]]

\* defaultdict(list): reading an absent key gives the empty list
DictGet(d, k) == IF k \in DOMAIN d THEN d[k] ELSE <<>>

\* variant: op.action == 'r' alone, the held lock's action is not compared
Compatible_RequestOnly(op, held) == op.action = "r"

\* op.action == a == 'r': shared reads are the only compatible pair
Compatible(op, held) == op.action = "r" /\ held.action = "r"

lockable(op, locked) ==
    IF op.action \notin {"r", "w"} THEN TRUE
    ELSE \A t \in DOMAIN locked :
            t # op.transaction =>
                \A k \in 1..Len(locked[t]) :
                    ~(locked[t][k].object = op.object /\ ~Compatible(op, locked[t][k]))

lock(op) == Op(op.action \o "l", op.transaction, op.object)

unlock(op) == Op(op.action \o "u", op.transaction, op.object)

RECURSIVE MapSeq(_, _)
\* [F(x) for x in seq], F one of "lock", "unlock"
MapSeq(F, seq) ==
    IF seq = <<>> THEN <<>>
    ELSE <<IF F = "lock" THEN lock(Head(seq)) ELSE unlock(Head(seq))>>
             \o MapSeq(F, Tail(seq))

IsAccess(op) == op.action \in {"r", "w"}

IsEnd(op) == op.action \in {"a", "c"}

\* the read/write operations of transaction t in sch, in order
actions(sch, t) ==
    LET Mine(op) == op.transaction = t /\ IsAccess(op)
    IN  SelectSeq(sch, Mine)

\* ------------------------------------------------------------------ state

VARIABLES
    s,          \* the input schedule
    fn,         \* the function called on s ("none" before the call)
    res,        \* its outcome ("none" before it returns)
    strict,     \* s2pl's keyword argument
    ns,         \* simulators: the output produced so far
    delayed,    \* simulators: the delay queue
    locked,     \* simulators: the lock table, transaction -> held operations
    remaining   \* simulators: the work queue

vars == <<s, fn, res, strict, ns, delayed, locked, remaining>>

sim == <<strict, ns, delayed, locked, remaining>>

\* ------------------------------------------------------------ the input

\* nothing has been called; the schedule is still being written
Init ==
    /\ s = <<>>
    /\ fn = "none"
    /\ res = "none"
    /\ strict = FALSE
    /\ ns = <<>>
    /\ delayed = <<>>
    /\ locked = EmptyDict
    /\ remaining = <<>>

\* the caller appends one more operation to the schedule (parse yields the
\* operations in token order), up to maxlen operations
Input(maxlen) ==
    /\ fn = "none"
    /\ Len(s) < maxlen
    /\ \E op \in NextOps(s) : s' = Append(s, op)
    /\ UNCHANGED <<fn, res, sim>>

\* ------------------------------------------------- classifier calls

CallSt ==
    /\ fn = "none"
    /\ fn' = "st"
    /\ res' = st(s)
    /\ UNCHANGED <<s, sim>>

CallAca ==
    /\ fn = "none"
    /\ fn' = "aca"
    /\ res' = aca(s)
    /\ UNCHANGED <<s, sim>>

CallRc ==
    /\ fn = "none"
    /\ fn' = "rc"
    /\ res' = rc(s)
    /\ UNCHANGED <<s, sim>>

CallRecoverable ==
    /\ fn = "none"
    /\ fn' = "recoverable"
    /\ res' = recoverable(s)
    /\ UNCHANGED <<s, sim>>

\* reads(s): the returned list of triples is kept in ns
CallReads ==
    /\ fn = "none"
    /\ fn' = "reads"
    /\ res' = "returned"
    /\ ns' = reads(s)
    /\ UNCHANGED <<s, strict, delayed, locked, remaining>>

NextClassify ==
    Input(MaxLen) \/ CallSt \/ CallAca \/ CallRc \/ CallRecoverable \/ CallReads

SpecClassify == Init /\ [][NextClassify]_vars

\* ------------------------------------------------------------ conf call

\* conf(s): the returned list of pairs is kept in ns
CallConf ==
    /\ fn = "none"
    /\ fn' = "conf"
    /\ res' = "returned"
    /\ ns' = conf(s)
    /\ UNCHANGED <<s, strict, delayed, locked, remaining>>

NextConf == Input(MaxLenConf) \/ CallConf

SpecConf == Init /\ [][NextConf]_vars

\* ------------------------------------------------------------------ c2pl

\* commits = {op.transaction: op for op in remaining if op.action in ['a','c']}
\* (the last terminating event of a transaction wins)
c2plCommits(sch) ==
    [t \in {sch[i].transaction : i \in {j \in 1..Len(sch) : IsEnd(sch[j])}} |->
        sch[Max({i \in 1..Len(sch) : IsEnd(sch[i]) /\ sch[i].transaction = t})]]

\* remaining = [op for op in remaining if op not in commits.values()]
c2plRemaining(sch) ==
    LET Kept(op) == op \notin {c2plCommits(sch)[t] : t \in DOMAIN c2plCommits(sch)}
    IN  SelectSeq(sch, Kept)

\* c2pl(s) is called: the state on entry to the while loop
C2plCall ==
    /\ fn = "none"
    /\ fn' = "c2pl"
    /\ ns' = <<>>
    /\ delayed' = <<>>
    /\ locked' = EmptyDict
    /\ remaining' = c2plRemaining(s)
    /\ UNCHANGED <<s, res, strict>>

\* C2plDefer with the lock events of the lockable accesses emitted before the
\* request is deferred (line 200-203)
C2plDefer_PartialLocks ==
    /\ fn = "c2pl" /\ res = "none" /\ remaining # <<>>
    /\ LET op       == Head(remaining)
           required == actions(s, op.transaction)
           Free(r)  == lockable(r, locked)
       IN  /\ op.transaction \notin DOMAIN locked
           /\ \E k \in 1..Len(required) : ~lockable(required[k], locked)
           /\ ns' = ns \o MapSeq("lock", SelectSeq(required, Free))
           /\ delayed' = Append(delayed, op)
           /\ remaining' = Tail(remaining)
    /\ UNCHANGED <<s, fn, res, strict, locked>>

\* one of the transaction's accesses is not lockable: defer the request
C2plDefer ==
    /\ fn = "c2pl" /\ res = "none" /\ remaining # <<>>
    /\ LET op       == Head(remaining)
           required == actions(s, op.transaction)
       IN  /\ op.transaction \notin DOMAIN locked
           /\ \E k \in 1..Len(required) : ~lockable(required[k], locked)
           /\ delayed' = Append(delayed, op)
           /\ remaining' = Tail(remaining)
    /\ UNCHANGED <<s, fn, res, strict, ns, locked>>

\* every access is lockable: emit all lock events, push the request back
C2plAcquire ==
    /\ fn = "c2pl" /\ res = "none" /\ remaining # <<>>
    /\ LET op       == Head(remaining)
           required == actions(s, op.transaction)
       IN  /\ op.transaction \notin DOMAIN locked
           /\ \A k \in 1..Len(required) : lockable(required[k], locked)
           /\ ns' = ns \o MapSeq("lock", required)
           /\ locked' = DictSet(locked, op.transaction, required)
           /\ remaining' = <<op>> \o Tail(remaining)
    /\ UNCHANGED <<s, fn, res, strict, delayed>>

\* C2plExecute with the retry of the delay queue forgotten (line 215-216)
C2plExecute_NoRetry ==
    /\ fn = "c2pl" /\ res = "none" /\ remaining # <<>>
    /\ LET op   == Head(remaining)
           t    == op.transaction
           held == locked[t]
       IN  /\ t \in DOMAIN locked
           /\ held # <<>>
           /\ locked' = DictSet(locked, t, Tail(held))
           /\ ns' = ns \o <<op, unlock(op)>>
                       \o (IF Len(held) = 1 /\ t \in DOMAIN c2plCommits(s)
                           THEN <<c2plCommits(s)[t]>> ELSE <<>>)
           /\ res' = IF Len(held) = 1 /\ t \notin DOMAIN c2plCommits(s)
                     THEN "KeyError" ELSE res
           /\ remaining' = Tail(remaining)
           /\ delayed' = delayed
    /\ UNCHANGED <<s, fn, strict>>

\* C2plExecute with the release emitted before the access (line 211)
C2plExecute_UnlockFirst ==
    /\ fn = "c2pl" /\ res = "none" /\ remaining # <<>>
    /\ LET op   == Head(remaining)
           t    == op.transaction
           held == locked[t]
       IN  /\ t \in DOMAIN locked
           /\ held # <<>>
           /\ locked' = DictSet(locked, t, Tail(held))
           /\ ns' = ns \o <<unlock(op), op>>
                       \o (IF Len(held) = 1 /\ t \in DOMAIN c2plCommits(s)
                           THEN <<c2plCommits(s)[t]>> ELSE <<>>)
           /\ res' = IF Len(held) = 1 /\ t \notin DOMAIN c2plCommits(s)
                     THEN "KeyError" ELSE res
           /\ remaining' = IF res' = "KeyError" THEN Tail(remaining)
                           ELSE delayed \o Tail(remaining)
           /\ delayed' = IF res' = "KeyError" THEN delayed ELSE <<>>
    /\ UNCHANGED <<s, fn, strict>>

\* the locks are held: execute, release, terminate after the last access;
\* commits[op.transaction] raises KeyError for a transaction with no
\* terminating event, locked[...].pop(0) IndexError on an empty list
C2plExecute ==
    /\ fn = "c2pl" /\ res = "none" /\ remaining # <<>>
    /\ LET op   == Head(remaining)
           t    == op.transaction
           held == locked[t]
       IN  /\ t \in DOMAIN locked
           /\ IF held = <<>>
              THEN /\ res' = "IndexError"
                   /\ ns' = ns \o <<op, unlock(op)>>
                   /\ remaining' = Tail(remaining)
                   /\ UNCHANGED <<locked, delayed>>
              ELSE /\ locked' = DictSet(locked, t, Tail(held))
                   /\ IF Len(held) = 1
                      THEN IF t \in DOMAIN c2plCommits(s)
                           THEN /\ ns' = ns \o <<op, unlock(op), c2plCommits(s)[t]>>
                                /\ remaining' = delayed \o Tail(remaining)
                                /\ delayed' = <<>>
                                /\ res' = res
                           ELSE /\ ns' = ns \o <<op, unlock(op)>>
                                /\ remaining' = Tail(remaining)
                                /\ delayed' = delayed
                                /\ res' = "KeyError"
                      ELSE /\ ns' = ns \o <<op, unlock(op)>>
                           /\ remaining' = delayed \o Tail(remaining)
                           /\ delayed' = <<>>
                           /\ res' = res
    /\ UNCHANGED <<s, fn, strict>>

\* while remaining: is false; return ns
C2plReturn ==
    /\ fn = "c2pl" /\ res = "none" /\ remaining = <<>>
    /\ res' = "returned"
    /\ UNCHANGED <<s, fn, strict, ns, delayed, locked, remaining>>

NextC2PL ==
    Input(MaxLenC2PL) \/ C2plCall \/ C2plDefer \/ C2plAcquire \/ C2plExecute \/ C2plReturn

SpecC2PL == Init /\ [][NextC2PL]_vars

\* the loop is sequential code: a step that can be taken is taken
C2plStep == C2plDefer \/ C2plAcquire \/ C2plExecute \/ C2plReturn

FairSpecC2PL == SpecC2PL /\ WF_vars(C2plStep)

\* ------------------------------------------------------------------ s2pl

\* s2pl(s, strict=b) is called: the state on entry to the while loop
S2plCall ==
    /\ fn = "none"
    /\ fn' = "s2pl"
    /\ \E b \in BOOLEAN : strict' = b
    /\ ns' = <<>>
    /\ delayed' = <<>>
    /\ locked' = EmptyDict
    /\ remaining' = s
    /\ UNCHANGED <<s, res>>

\* S2plDefer with the delay queue overwritten instead of appended to
\* (line 235)
S2plDefer_Overwrite ==
    /\ fn = "s2pl" /\ res = "none" /\ remaining # <<>>
    /\ LET op == Head(remaining)
       IN  /\ actions(delayed, op.transaction) # <<>> \/ ~lockable(op, locked)
           /\ delayed' = <<op>>
           /\ remaining' = Tail(remaining)
    /\ UNCHANGED <<s, fn, res, strict, ns, locked>>

\* the transaction has a deferred access, or the request is not lockable
S2plDefer ==
    /\ fn = "s2pl" /\ res = "none" /\ remaining # <<>>
    /\ LET op == Head(remaining)
       IN  /\ actions(delayed, op.transaction) # <<>> \/ ~lockable(op, locked)
           /\ delayed' = Append(delayed, op)
           /\ remaining' = Tail(remaining)
    /\ UNCHANGED <<s, fn, res, strict, ns, locked>>

\* S2plTerminate with the retry of the delay queue forgotten (line 239-240)
S2plTerminate_NoRetry ==
    /\ fn = "s2pl" /\ res = "none" /\ remaining # <<>>
    /\ LET op == Head(remaining)
           t  == op.transaction
       IN  /\ ~(actions(delayed, t) # <<>> \/ ~lockable(op, locked))
           /\ op.action \in {"a", "c"}
           /\ ns' = ns \o MapSeq("unlock", DictGet(locked, t)) \o <<op>>
           /\ locked' = DictSet(locked, t, <<>>)
           /\ remaining' = Tail(remaining)
           /\ delayed' = delayed
    /\ UNCHANGED <<s, fn, res, strict>>

\* S2plTerminate with the terminating event emitted before the releases
\* (line 237)
S2plTerminate_EndFirst ==
    /\ fn = "s2pl" /\ res = "none" /\ remaining # <<>>
    /\ LET op == Head(remaining)
           t  == op.transaction
       IN  /\ ~(actions(delayed, t) # <<>> \/ ~lockable(op, locked))
           /\ op.action \in {"a", "c"}
           /\ ns' = ns \o <<op>> \o MapSeq("unlock", DictGet(locked, t))
           /\ locked' = DictSet(locked, t, <<>>)
           /\ remaining' = delayed \o Tail(remaining)
           /\ delayed' = <<>>
    /\ UNCHANGED <<s, fn, res, strict>>

\* abort/commit: emit the releases, then the terminating event
S2plTerminate ==
    /\ fn = "s2pl" /\ res = "none" /\ remaining # <<>>
    /\ LET op == Head(remaining)
           t  == op.transaction
       IN  /\ ~(actions(delayed, t) # <<>> \/ ~lockable(op, locked))
           /\ op.action \in {"a", "c"}
           /\ ns' = ns \o MapSeq("unlock", DictGet(locked, t)) \o <<op>>
           /\ locked' = DictSet(locked, t, <<>>)
           /\ remaining' = delayed \o Tail(remaining)
           /\ delayed' = <<>>
    /\ UNCHANGED <<s, fn, res, strict>>

\* S2plAccess with the strict flag ignored: a read is always released at
\* once (line 243)
S2plAccess_IgnoreStrict ==
    /\ fn = "s2pl" /\ res = "none" /\ remaining # <<>>
    /\ LET op == Head(remaining)
           t  == op.transaction
       IN  /\ ~(actions(delayed, t) # <<>> \/ ~lockable(op, locked))
           /\ op.action \notin {"a", "c"}
           /\ IF op.action = "r"
              THEN /\ ns' = ns \o <<lock(op), op, unlock(op)>>
                   /\ locked' = locked
              ELSE /\ ns' = ns \o <<lock(op), op>>
                   /\ locked' = DictSet(locked, t, Append(DictGet(locked, t), op))
           /\ remaining' = delayed \o Tail(remaining)
           /\ delayed' = <<>>
    /\ UNCHANGED <<s, fn, res, strict>>

\* S2plAccess with the lock event emitted after the access (line 242)
S2plAccess_LockAfter ==
    /\ fn = "s2pl" /\ res = "none" /\ remaining # <<>>
    /\ LET op == Head(remaining)
           t  == op.transaction
       IN  /\ ~(actions(delayed, t) # <<>> \/ ~lockable(op, locked))
           /\ op.action \notin {"a", "c"}
           /\ IF ~strict /\ op.action = "r"
              THEN /\ ns' = ns \o <<op, lock(op), unlock(op)>>
                   /\ locked' = locked
              ELSE /\ ns' = ns \o <<op, lock(op)>>
                   /\ locked' = DictSet(locked, t, Append(DictGet(locked, t), op))
           /\ remaining' = delayed \o Tail(remaining)
           /\ delayed' = <<>>
    /\ UNCHANGED <<s, fn, res, strict>>

\* S2plAccess with the delay queue put back behind the work queue instead of
\* in front of it (line 249)
S2plAccess_RetryAtBack ==
    /\ fn = "s2pl" /\ res = "none" /\ remaining # <<>>
    /\ LET op == Head(remaining)
           t  == op.transaction
       IN  /\ ~(actions(delayed, t) # <<>> \/ ~lockable(op, locked))
           /\ op.action \notin {"a", "c"}
           /\ IF ~strict /\ op.action = "r"
              THEN /\ ns' = ns \o <<lock(op), op, unlock(op)>>
                   /\ locked' = locked
              ELSE /\ ns' = ns \o <<lock(op), op>>
                   /\ locked' = DictSet(locked, t, Append(DictGet(locked, t), op))
           /\ remaining' = Tail(remaining) \o delayed
           /\ delayed' = <<>>
    /\ UNCHANGED <<s, fn, res, strict>>

\* read/write: lock and access; a read is released at once unless strict
S2plAccess ==
    /\ fn = "s2pl" /\ res = "none" /\ remaining # <<>>
    /\ LET op == Head(remaining)
           t  == op.transaction
       IN  /\ ~(actions(delayed, t) # <<>> \/ ~lockable(op, locked))
           /\ op.action \notin {"a", "c"}
           /\ IF ~strict /\ op.action = "r"
              THEN /\ ns' = ns \o <<lock(op), op, unlock(op)>>
                   /\ locked' = locked
              ELSE /\ ns' = ns \o <<lock(op), op>>
                   /\ locked' = DictSet(locked, t, Append(DictGet(locked, t), op))
           /\ remaining' = delayed \o Tail(remaining)
           /\ delayed' = <<>>
    /\ UNCHANGED <<s, fn, res, strict>>

\* return (False, ns, delayed) if delayed else (True, ns)
S2plReturn ==
    /\ fn = "s2pl" /\ res = "none" /\ remaining = <<>>
    /\ res' = IF delayed # <<>> THEN "False" ELSE "True"
    /\ UNCHANGED <<s, fn, strict, ns, delayed, locked, remaining>>

NextS2PL ==
    Input(MaxLen) \/ S2plCall \/ S2plDefer \/ S2plTerminate \/ S2plAccess \/ S2plReturn

SpecS2PL == Init /\ [][NextS2PL]_vars

\* the loop is sequential code: a step that can be taken is taken
S2plStep == S2plDefer \/ S2plTerminate \/ S2plAccess \/ S2plReturn

FairSpecS2PL == SpecS2PL /\ WF_vars(S2plStep)

\* ------------------------------------------------------- both simulators

\* either simulator is called on the schedule (s2pl on the schedules of at
\* most MaxLen operations)
NextSim ==
    \/ Input(MaxLenC2PL)
    \/ C2plCall \/ C2plDefer \/ C2plAcquire \/ C2plExecute \/ C2plReturn
    \/ (Len(s) <= MaxLen /\ S2plCall)
    \/ S2plDefer \/ S2plTerminate \/ S2plAccess \/ S2plReturn

SpecSim == Init /\ [][NextSim]_vars

\* ================================================================== claims

\* position of the nearest write to object o strictly before position p
\* (0 when there is none)
NearestWrite(sch, p, o) ==
    Max({q \in 1..(p - 1) : sch[q].action = "w" /\ sch[q].object = o})

\* C1: for every well-formed schedule, st(s) true implies aca(s) true, and
\* aca(s) true implies rc(s) true (also when a transaction reads the same
\* object more than once).
C1_StImpliesAcaImpliesRc ==
    /\ st(s) = "True" => aca(s) = "True"
    /\ aca(s) = "True" => rc(s) = "True"

\* C2: recoverable(s) yields exactly the outcome of rc(s).
C2_RecoverableIsRc ==
    fn = "recoverable" => res = rc(s)

\* C3: whenever a transaction reads an object whose nearest preceding write
\* is by another transaction that has not yet terminated, and the reader
\* commits before that writer aborts (as in w1(x) r2(x) c2 a1), aca and rc
\* both return false.
C3_DirtyReadCommitted ==
    \A p \in 1..Len(s) :
        LET q == NearestWrite(s, p, s[p].object)
        IN  ( /\ s[p].action = "r"
              /\ q # 0
              /\ s[q].transaction # s[p].transaction
              /\ \E i, j \in (p + 1)..Len(s) :
                    /\ i < j
                    /\ s[i] = Op("c", s[p].transaction, EmptyObj)
                    /\ s[j] = Op("a", s[q].transaction, EmptyObj) )
            => (aca(s) = "False" /\ rc(s) = "False")

\* C9: st, aca and rc are total on well-formed schedules: each returns a
\* boolean and never raises.
C9_ClassifiersTotal ==
    fn \in {"st", "aca", "rc"} => res \in {"True", "False"}

\* ------------------------------------------------ outputs of the simulators

IsLock(op) == op.action \in {"rl", "wl"}

IsUnlock(op) == op.action \in {"ru", "wu"}

\* the events of transaction t in seq, in order
Project(seq, t) ==
    LET Mine(op) == op.transaction = t
    IN  SelectSeq(seq, Mine)

\* number of occurrences of x in seq
Count(seq, x) == Cardinality({i \in 1..Len(seq) : seq[i] = x})

\* position of the terminating event of t in seq (0 when there is none)
EndPos(seq, t) ==
    Max({k \in 1..Len(seq) : IsEnd(seq[k]) /\ seq[k].transaction = t})

\* <<op1, unlock(op1), op2, unlock(op2), ...>>
RECURSIVE AccessUnlock(_)
AccessUnlock(seq) ==
    IF seq = <<>> THEN <<>>
    ELSE <<Head(seq), unlock(Head(seq))>> \o AccessUnlock(Tail(seq))

\* the transactions of the input that have a read/write access
Accessing(sch) == {sch[i].transaction : i \in {j \in 1..Len(sch) : IsAccess(sch[j])}}

\* every transaction of the input has exactly one terminating event
OneEndEach(sch) ==
    \A t \in {sch[i].transaction : i \in 1..Len(sch)} :
        Cardinality({i \in 1..Len(sch) : IsEnd(sch[i]) /\ sch[i].transaction = t}) = 1

\* s2pl: u holds a lock that a deferred request of t requires
Blocks(u, t) ==
    /\ u # t
    /\ u \in DOMAIN locked
    /\ \E i \in 1..Len(delayed), k \in 1..Len(DictGet(locked, u)) :
          /\ delayed[i].transaction = t
          /\ IsAccess(delayed[i])
          /\ locked[u][k].object = delayed[i].object
          /\ ~Compatible(delayed[i], locked[u][k])

\* two transactions each hold a lock the other requires
MutualBlock == \E t, u \in Txns : Blocks(u, t) /\ Blocks(t, u)

S2plReturned == fn = "s2pl" /\ res \in {"True", "False"}

C2plReturned == fn = "c2pl" /\ res = "returned"

\* C4 (as claimed): s2pl returns the failure result if and only if, when the
\* work queue empties, two transactions each hold a lock the other requires.
C4_FailIffMutualBlock ==
    S2plReturned => (res = "False" <=> MutualBlock)

\* C4 (amended): s2pl returns the failure result if and only if, when the
\* work queue empties, the request at the head of the delay queue is a
\* read/write that conflicts with a lock held by another transaction; two
\* mutually blocking transactions always give the failure result.
C4_FailIffBlocked ==
    S2plReturned =>
        /\ res = "False" <=>
              /\ delayed # <<>>
              /\ IsAccess(Head(delayed))
              /\ \E u \in Txns : Blocks(u, Head(delayed).transaction)
              /\ ~lockable(Head(delayed), locked)
        /\ MutualBlock => res = "False"
        /\ res = "True" => \A t, u \in Txns : ~Blocks(u, t)

\* C4 witness: w1(x) w2(y) r1(y) r2(x) ends in the failure result with both
\* transactions blocking each other.
C4_Witness ==
    /\ S2plReturned /\ res = "False" /\ MutualBlock
    /\ s = <<Op("w", 1, 1), Op("w", 2, 2), Op("r", 1, 2), Op("r", 2, 1)>>
    /\ delayed = <<Op("r", 1, 2), Op("r", 2, 1)>>

\* C5: for every input in which each transaction has exactly one terminating
\* event the c2pl loop terminates, does not exit with a non-empty delay
\* queue, and the output holds every read/write of the input exactly once.
C5_DeadlockFree ==
    [](fn = "c2pl" /\ OneEndEach(s) =>
          <>( /\ res = "returned"
              /\ delayed = <<>>
              /\ \A op \in AccessOps : Count(ns, op) = Count(s, op) ))

\* C5 witness: a run that deferred a request (the output order of the
\* accesses differs from the input order) has returned.
C5_Witness ==
    /\ C2plReturned /\ OneEndEach(s)
    /\ delayed = <<>>
    /\ SelectSeq(ns, IsAccess) # SelectSeq(s, IsAccess)

\* C6 (as claimed): in the c2pl output every access has exactly one lock
\* event immediately before it and exactly one unlock event immediately
\* after it, and the last event of a transaction is its abort/commit.
C6_LockImmediatelyBefore ==
    C2plReturned =>
        /\ \A i \in 1..Len(ns) :
              IsAccess(ns[i]) =>
                  /\ i > 1 /\ ns[i - 1] = lock(ns[i])
                  /\ i < Len(ns) /\ ns[i + 1] = unlock(ns[i])
        /\ \A op \in AccessOps :
              /\ Count(ns, lock(op)) = Count(s, op)
              /\ Count(ns, unlock(op)) = Count(s, op)
        /\ \A t \in Accessing(s) :
              Project(ns, t)[Len(Project(ns, t))] = c2plCommits(s)[t]

\* C6 (amended): in the c2pl output the events of every transaction that has
\* an access are: one lock event per access, all together in one contiguous
\* block that ends immediately before the transaction's first access; then
\* each access immediately followed by its unlock event; then the original
\* abort/commit event.  A transaction without an access has no event in the
\* output.
C6_LockBlockThenAccessUnlock ==
    C2plReturned =>
        /\ \A t \in Accessing(s) :
              Project(ns, t) = MapSeq("lock", actions(s, t))
                                 \o AccessUnlock(actions(s, t))
                                 \o <<c2plCommits(s)[t]>>
        /\ \A t \in Txns \ Accessing(s) : Project(ns, t) = <<>>
        /\ \A i \in 1..Len(ns) :
              /\ IsAccess(ns[i]) => i < Len(ns) /\ ns[i + 1] = unlock(ns[i])
              /\ IsLock(ns[i]) =>
                    /\ i < Len(ns)
                    /\ ns[i + 1].transaction = ns[i].transaction
                    /\ IsLock(ns[i + 1]) \/ IsAccess(ns[i + 1])

\* C6 witness: a returned run in which a transaction with two accesses took
\* both locks before its first access.
C6_Witness ==
    /\ C2plReturned
    /\ \E i \in 1..Len(ns) : i + 2 <= Len(ns) /\
          IsLock(ns[i]) /\ IsLock(ns[i + 1]) /\ IsAccess(ns[i + 2])

\* C7 (as claimed): s2pl, strict=false: every read is immediately followed by
\* its unlock event and every write's unlock event is at or after the
\* position of the transaction's abort/commit event in the output.
C7_WriteUnlockAfterEnd ==
    (S2plReturned /\ ~strict) =>
        \A i \in 1..Len(ns) :
            /\ ns[i].action = "r" => i < Len(ns) /\ ns[i + 1] = unlock(ns[i])
            /\ ns[i].action = "wu" =>
                  /\ EndPos(ns, ns[i].transaction) # 0
                  /\ EndPos(ns, ns[i].transaction) <= i

\* C7 (amended): s2pl, strict=false: every read is immediately followed by
\* its unlock event; every write's unlock event is in the block of write
\* unlocks that ends immediately before the transaction's abort/commit event,
\* and that block unlocks each write of the transaction.
C7_WriteUnlockBeforeEnd ==
    (S2plReturned /\ ~strict) =>
        /\ \A i \in 1..Len(ns) :
              /\ ns[i].action = "r" => i < Len(ns) /\ ns[i + 1] = unlock(ns[i])
              /\ ns[i].action = "ru" => i > 1 /\ ns[i - 1].action = "r"
              /\ ns[i].action = "wu" =>
                    LET e == EndPos(ns, ns[i].transaction)
                    IN  /\ i < e
                        /\ \A m \in i..(e - 1) :
                              ns[m].action = "wu" /\ ns[m].transaction = ns[i].transaction
        /\ \A t \in Txns :
              LET IsWrite(op) == op.action = "w"
                  IsWu(op)    == op.action = "wu"
              IN  EndPos(ns, t) # 0 =>
                      SelectSeq(Project(ns, t), IsWu)
                          = MapSeq("unlock", SelectSeq(Project(ns, t), IsWrite))

\* C7 witness: a transaction read, wrote and terminated: the read was
\* unlocked at once, the write just before the terminating event.
C7_Witness ==
    /\ S2plReturned /\ ~strict
    /\ \E i, j \in 1..Len(ns) :
          /\ ns[i].action = "ru" /\ ns[j].action = "wu"
          /\ ns[i].transaction = ns[j].transaction
          /\ i < j

\* C8: s2pl, strict=true: every unlock event of a transaction is in the block
\* of releases emitted with its abort/commit event (none earlier), and that
\* block releases every lock the transaction acquired.
C8_StrictUnlockAtEnd ==
    (S2plReturned /\ strict) =>
        /\ \A i \in 1..Len(ns) :
              IsUnlock(ns[i]) =>
                  LET e == EndPos(ns, ns[i].transaction)
                  IN  /\ i < e
                      /\ \A m \in i..(e - 1) :
                            IsUnlock(ns[m]) /\ ns[m].transaction = ns[i].transaction
        /\ \A t \in Txns :
              EndPos(ns, t) # 0 =>
                  /\ SelectSeq(Project(ns, t), IsUnlock)
                        = MapSeq("unlock", SelectSeq(Project(ns, t), IsAccess))
                  /\ locked[t] = <<>>

\* C8 witness: under strict=true a transaction's read lock and write lock are
\* released together, right before its terminating event.
C8_Witness ==
    /\ S2plReturned /\ strict
    /\ \E i \in 1..Len(ns) : i + 2 <= Len(ns) /\
          ns[i].action = "ru" /\ ns[i + 1].action = "wu" /\ IsEnd(ns[i + 2])

\* C10: c2pl never fails externally: on every well-formed schedule, also one
\* where a transaction never commits or aborts, it returns an output.
C10_C2plNeverRaises ==
    fn = "c2pl" => res \in {"none", "returned"}

\* each transaction's operations are contiguous and end with a commit: every
\* operation is a commit or is followed by an operation of the same transaction
Serial(sch) ==
    \A i \in 1..Len(sch) :
        \/ sch[i].action = "c"
        \/ i < Len(sch) /\ sch[i + 1].transaction = sch[i].transaction

\* C11: for every serial schedule (each transaction's operations contiguous
\* and ending with a commit), st, aca and rc each return true.
C11_SerialIsStrict ==
    (fn \in {"st", "aca", "rc"} /\ Serial(s)) => res = "True"

\* a serial schedule of two transactions, the second reading from the first,
\* was classified
C11_Witness ==
    /\ fn \in {"st", "aca", "rc"}
    /\ Serial(s)
    /\ Len(commits(s)) = 2
    /\ Len(reads(s)) > 0
    /\ res = "True"

\* position of the write the read at position p reads from: the nearest
\* earlier write to the same object by another transaction that is not
\* aborted anywhere in sch (0 when there is none)
ReadSource(sch, p) ==
    Max({q \in 1..(p - 1) : /\ sch[q].action = "w"
                            /\ sch[q].object = sch[p].object
                            /\ sch[q].transaction # sch[p].transaction
                            /\ sch[q].transaction \notin aborts(sch)})

\* positions of the read occurrences that read from some write
AttributedReads(sch) ==
    {p \in 1..Len(sch) : sch[p].action = "r" /\ ReadSource(sch, p) # 0}

\* C12: reads(s) contains one triple (t, o, writer) for exactly the read
\* occurrences r_t(o) that have an earlier write to o by a transaction other
\* than t that is not aborted anywhere in s, writer being the transaction of
\* the nearest such write; the triples are in the schedule order of the reads.
C12_ReadsFrom ==
    fn = "reads" =>
        LET A == AttributedReads(s)
        IN  /\ Len(ns) = Cardinality(A)
            /\ \A p \in A :
                   ns[Cardinality({q \in A : q <= p})] =
                       <<s[p].transaction, s[p].object,
                         s[ReadSource(s, p)].transaction>>

\* reads returned two different triples and skipped a read that has no
\* eligible write before it
C12_Witness ==
    /\ fn = "reads"
    /\ Len(ns) = 2
    /\ ns[1] # ns[2]
    /\ \E p \in 1..Len(s) : s[p].action = "r" /\ p \notin AttributedReads(s)

\* the conflicting pairs of positions of sch: i before j, different
\* transactions, the same object, both transactions committed, at least one
\* of the two a write
ConflictPositions(sch) ==
    {pq \in (1..Len(sch)) \X (1..Len(sch)) :
        LET a == sch[pq[1]]
            b == sch[pq[2]]
        IN  /\ pq[1] < pq[2]
            /\ IsAccess(a) /\ IsAccess(b)
            /\ a.transaction # b.transaction
            /\ a.object = b.object
            /\ a.transaction \in Range(commits(sch))
            /\ b.transaction \in Range(commits(sch))
            /\ "w" \in {a.action, b.action}}

\* the returned pairs are exactly the conflict pairs, in the order of their
\* first elements
C13_ConfPairs ==
    fn = "conf" =>
        /\ \A k \in 1..Len(ns) :
               \E pq \in ConflictPositions(s) : ns[k] = <<s[pq[1]], s[pq[2]]>>
        /\ \A pq \in ConflictPositions(s) :
               \E k \in 1..Len(ns) : ns[k] = <<s[pq[1]], s[pq[2]]>>
        /\ \A k, l \in 1..Len(ns) :
               k < l => Index(s, ns[k][1]) <= Index(s, ns[l][1])

\* C13: conf(s) returns exactly the conflict pairs of s (op1 before op2,
\* different transactions, same object, both committed, at least one write),
\* ordered by the schedule position of their first element, and no pair is
\* returned twice, also when a transaction repeats the same operation.
C13_ConfExactNoDuplicate ==
    /\ C13_ConfPairs
    /\ fn = "conf" => \A k, l \in 1..Len(ns) : k < l => ns[k] # ns[l]

\* C14: aca(s) is true exactly when, for every read occurrence that reads-from
\* attributes to a writer tj, the commit of tj lies strictly before the
\* position of that same read occurrence (also when a transaction reads the
\* same object at several positions).
C14_AcaPerOccurrence ==
    fn = "aca" =>
        (res = "True" <=>
            \A p \in AttributedReads(s) :
                \E q \in 1..(p - 1) :
                    s[q] = Op("c", s[ReadSource(s, p)].transaction, EmptyObj))

\* the lock event l is held after seq[1..k]: it has been emitted more often
\* than the matching unlock event
HeldAt(seq, k, l) ==
    LET pre == Slice(seq, 1, k)
        u   == Op(IF l.action = "rl" THEN "ru" ELSE "wu", l.transaction, l.object)
    IN  Count(pre, l) > Count(pre, u)

\* after every prefix of seq no two different transactions hold locks on the
\* same object unless both are read locks; a lock starts to be held at its
\* lock event, so it is enough to look at the prefixes that end with one
LockSafe(seq) ==
    \A j \in 1..Len(seq) :
        IsLock(seq[j]) =>
            \A i \in 1..(j - 1) :
                ( /\ IsLock(seq[i])
                  /\ seq[i].transaction # seq[j].transaction
                  /\ seq[i].object = seq[j].object
                  /\ HeldAt(seq, j, seq[i]) )
                => (seq[i].action = "rl" /\ seq[j].action = "rl")

\* C15: lock safety: after every prefix of the output of c2pl and of s2pl
\* (either mode) no two different transactions hold locks on the same object
\* unless both are read locks.  Checked on the output produced so far at every
\* step, which covers every prefix of every output.
C15_LockSafety ==
    fn \in {"c2pl", "s2pl"} => LockSafe(ns)

\* a returned c2pl output in which, at some prefix, two transactions hold read
\* locks on the same object
C15_Witness ==
    /\ C2plReturned
    /\ \E i, j \in 1..Len(ns) :
          /\ i < j
          /\ ns[i].action = "rl" /\ ns[j].action = "rl"
          /\ ns[i].transaction # ns[j].transaction
          /\ ns[i].object = ns[j].object
          /\ HeldAt(ns, j, ns[i])

\* C16: two-phase rule: in every output of c2pl and of s2pl (strict=false and
\* strict=true) no transaction has a lock event after one of its own unlock
\* events.
C16_TwoPhase ==
    (C2plReturned \/ S2plReturned) =>
        \A i, j \in 1..Len(ns) :
            (i < j /\ IsUnlock(ns[i]) /\ IsLock(ns[j]))
                => ns[i].transaction # ns[j].transaction

\* an operation of the input, as opposed to a lock or unlock event
IsOriginal(op) == IsAccess(op) \/ IsEnd(op)

\* C17: s2pl preserves per-transaction order: in every loop state and at the
\* return (either mode) the operations of each transaction emitted so far,
\* followed by its operations in the delay queue and then those in the work
\* queue, are its operations in input order; so the output and the returned
\* delay queue keep the input order, and no operation of a transaction is
\* emitted while an earlier one of its operations is in the delay queue.
C17_PerTransactionOrder ==
    fn = "s2pl" =>
        \A t \in Txns :
            Project(SelectSeq(ns, IsOriginal), t)
                \o Project(delayed, t) \o Project(remaining, t)
              = Project(s, t)

\* s2pl succeeded after deferring both operations of a transaction: the
\* output order differs from the input order
C17_Witness ==
    /\ S2plReturned /\ res = "True"
    /\ SelectSeq(ns, IsOriginal) # s
    /\ \E i \in 1..Len(s) : i + 2 <= Len(s) /\
          /\ s[i + 1].transaction = s[i + 2].transaction
          /\ \E j \in 1..Len(ns) : ns[j] = s[i + 2] /\
                \E k \in (j + 1)..Len(ns) : ns[k] = s[i]

\* emitted operations, delay queue and work queue together hold every
\* operation as often as the input does
Conserved ==
    \A op \in Ops :
        Count(SelectSeq(ns, IsOriginal), op) + Count(delayed, op)
            + Count(remaining, op) = Count(s, op)

\* C18: s2pl always terminates and conserves operations: in every loop state
\* the emitted original operations, the delay queue and the work queue are
\* together a permutation of the input; every call returns, with an empty
\* work queue, and with an empty delay queue on success.
C18_TerminatesAndConserves ==
    /\ [](fn = "s2pl" => Conserved)
    /\ [](fn = "s2pl" =>
            <>( /\ S2plReturned
                /\ remaining = <<>>
                /\ res = "True" => delayed = <<>> ))

\* s2pl returned the failure result with part of the input emitted and two
\* operations left in the delay queue
C18_Witness ==
    /\ S2plReturned /\ res = "False"
    /\ Conserved
    /\ SelectSeq(ns, IsOriginal) # <<>>
    /\ Len(delayed) >= 2

\* C19: c2pl is all-or-nothing: when the request of a transaction that holds
\* no locks is processed and one of the transaction's accesses is not
\* lockable, the output and the lock table stay as they are and only the delay
\* queue grows, by that request; otherwise the lock events of all the
\* transaction's accesses are appended as one contiguous block, in order, and
\* none of the transaction's accesses has been executed before it.
C19_AllOrNothing ==
    [][ ( /\ fn = "c2pl" /\ res = "none" /\ remaining # <<>>
          /\ Head(remaining).transaction \notin DOMAIN locked )
        => LET op       == Head(remaining)
               t        == op.transaction
               required == actions(s, t)
           IN  IF \E k \in 1..Len(required) : ~lockable(required[k], locked)
               THEN /\ ns' = ns
                    /\ locked' = locked
                    /\ delayed' = Append(delayed, op)
               ELSE /\ Len(ns') = Len(ns) + Len(required)
                    /\ SubSeq(ns', 1, Len(ns)) = ns
                    /\ \A k \in 1..Len(required) :
                          ns'[Len(ns) + k] =
                              Op(required[k].action \o "l", t, required[k].object)
                    /\ \A i \in 1..Len(ns') :
                          ~(IsAccess(ns'[i]) /\ ns'[i].transaction = t)
                    /\ delayed' = delayed
      ]_vars

\* a request was deferred although the first access of its transaction was
\* lockable: the transaction has no lock event in the output and no entry in
\* the lock table
C19_Witness ==
    /\ fn = "c2pl" /\ res = "none"
    /\ delayed # <<>>
    /\ LET t == delayed[1].transaction
       IN  /\ Len(actions(s, t)) >= 2
           /\ lockable(actions(s, t)[1], locked)
           /\ ~lockable(actions(s, t)[2], locked)
           /\ t \notin DOMAIN locked
           /\ Project(ns, t) = <<>>
           /\ ns # <<>>

\* the lock event of the access seq[i]
LockOf(seq, i) == Op(seq[i].action \o "l", seq[i].transaction, seq[i].object)

\* a matching unlock event occurs strictly after the access seq[i]
UnlockedAfter(seq, i) ==
    \E j \in (i + 1)..Len(seq) :
        seq[j] = Op(seq[i].action \o "u", seq[i].transaction, seq[i].object)

\* C20 (as claimed): in every output of c2pl and s2pl each access is covered
\* by a lock: a lock event of the transaction for the same action and object
\* is before the access with no matching unlock in between, and the matching
\* unlock event is strictly after the access.
C20_LockedThenUnlocked ==
    (C2plReturned \/ S2plReturned) =>
        \A i \in 1..Len(ns) :
            IsAccess(ns[i]) =>
                /\ HeldAt(ns, i - 1, LockOf(ns, i))
                /\ UnlockedAfter(ns, i)

\* C20 (amended): in every output of c2pl and s2pl each access is covered by
\* a lock held at the access; the matching unlock event is strictly after the
\* access in c2pl, for a read of s2pl with strict=false, and whenever the
\* transaction's abort/commit is in the output; any other s2pl lock has no
\* unlock event after the access and is still held at the end of the output.
C20_LockedUntilEnd ==
    (C2plReturned \/ S2plReturned) =>
        \A i \in 1..Len(ns) :
            IsAccess(ns[i]) =>
                /\ HeldAt(ns, i - 1, LockOf(ns, i))
                /\ IF \/ fn = "c2pl"
                      \/ ~strict /\ ns[i].action = "r"
                      \/ EndPos(ns, ns[i].transaction) # 0
                   THEN UnlockedAfter(ns, i)
                   ELSE /\ ~UnlockedAfter(ns, i)
                        /\ HeldAt(ns, Len(ns), LockOf(ns, i))

\* an s2pl output in which one write was unlocked at its transaction's
\* abort/commit and another write, of a transaction whose abort/commit is not
\* in the output, is still locked at the end
C20_Witness ==
    /\ S2plReturned
    /\ \E i, j \in 1..Len(ns) :
          /\ ns[i].action = "w" /\ ns[j].action = "w"
          /\ UnlockedAfter(ns, i)
          /\ ~UnlockedAfter(ns, j)
          /\ EndPos(ns, ns[j].transaction) = 0

=============================================================================
